---- MODULE Spec2Model ----
(***************************************************************************)
(* CVPerfect backend: the HTTP handlers of backend/app/api/resume.py and   *)
(* backend/app/routers/auth.py over the relational store, one action per   *)
(* handler.  Every action is one request handled from start to finish.     *)
(***************************************************************************)
EXTENDS Integers, Sequences, FiniteSets, TLC

(***************************** bounds ***************************************)
\* Number of user rows signup creates.
MaxUsers == 2
\* Largest remaining_enhancements value a stored user row starts with.
MaxRemaining == 1
\* Number of analytics rows the handlers write.
MaxLog == 1
\* Largest score the external scorer returns.
MaxScore == 1
\* Last instant of the clock (minutes).
MaxTime == 60
\* Number of bearer tokens signin hands out.
MaxTokens == 1
\* Number of enhance requests handled at the same time.
MaxRequests == 2

(***************************** program constants ****************************)
ACCESS_TOKEN_EXPIRE_MINUTES == 30
SECRET_KEY == "JWT_SECRET_KEY"

\* SubscriptionType
FREE == "free"
ONE_TIME == "one_time"
PRO == "pro"
SubscriptionType == {FREE, ONE_TIME, PRO}

\* ActionType members the handlers write
RESUME_UPLOAD == "resume_upload"
RESUME_ENHANCE == "resume_enhance"
RESUME_ANALYZE == "resume_analyze"
COVER_LETTER_GENERATE == "cover_letter_generate"

\* Python None for a text column / an optional string, and for Resume.score
None == "None"
NoScore == -1
\* No row / no user: the result of .first() on an empty query, as a key
NoRow == 0

(***************************** request inputs *******************************)
Emails == {"a@x.io", "b@x.io"}
Passwords == {"pw1", "pw2"}
Salts == {"s1", "s2"}
Contents == {"cv"}
\* (job_description, linkedin_url) of an upload
UploadExtras == {<<None, None>>, <<"jd", "https://linkedin/in/x">>}
Letters == {"letter"}
\* primary keys of the user rows a stored database starts with
UserIds == {1, 2}
Scores == 0..MaxScore
\* what score_resume (external) can return
ScorerResults == [score : Scores, feedback : {"feedback"}, learning_suggestions : {"ls"}]

VARIABLES
    users,          \* User table: id -> row
    resumes,        \* Resume table: id -> row
    nextResumeId,   \* Resume primary-key sequence
    versions,       \* ResumeVersion table (set of rows)
    analytics,      \* Analytics table in insertion order
    tasks,          \* BackgroundTasks queued by handlers, in order
    now,            \* datetime.utcnow(), in minutes
    issued,         \* access tokens returned by signin
    start,          \* remaining_enhancements of each user row at start
    sessions,       \* enhance requests in flight: each one's database session
    resp            \* the request just handled and its response

dbVars == <<users, resumes, nextResumeId, versions, analytics, tasks>>
vars == <<users, resumes, nextResumeId, versions, analytics, tasks, now, issued, start,
          sessions, resp>>

(***************************** pure helpers *********************************)
\* A definition named X_faulty is X with a plausible slip; the properties are
\* checked to fail when X is replaced by it.
\* str(user.id), for the ids the model uses
Digits == <<"1", "2", "3", "4", "5", "6", "7", "8", "9">>
ToStr(i) == Digits[i]
NoSub == "no-sub"

\* Python truthiness of an optional string
Truthy(s) == s # None /\ s # ""

\* a or b
OrElse(a, b) == IF Truthy(a) THEN a ELSE b

\* pwd_context.hash with a given salt; pwd_context.verify
Bcrypt(salt, password) == [scheme |-> "bcrypt", salt |-> salt, digest |-> <<salt, password>>]
verify_password_faulty(plain_password, hashed_password) == TRUE
verify_password(plain_password, hashed_password) ==
    hashed_password = Bcrypt(hashed_password.salt, plain_password)

\* jwt.encode of {"sub": ..., "exp": ...} under a key
Token(sub, exp, key) == [sub |-> sub, exp |-> exp, key |-> key]
NoToken == Token(NoSub, 0, "none")

create_access_token(sub, expires_delta) == Token(sub, now + expires_delta, SECRET_KEY)

\* jwt.decode: signature and exp are verified; the payload or an error
jwt_decode(token) ==
    IF token.key = SECRET_KEY /\ now < token.exp
    THEN [ok |-> TRUE, sub |-> token.sub]
    ELSE [ok |-> FALSE, sub |-> NoSub]

\* db.query(User).filter(User.id == user_id).first()
QueryUserById(user_id) ==
    IF \E u \in DOMAIN users : ToStr(u) = user_id
    THEN CHOOSE u \in DOMAIN users : ToStr(u) = user_id
    ELSE NoRow

\* get_current_user: the user's id, or NoRow where credentials_exception is raised
get_current_user(token) ==
    LET payload == jwt_decode(token) IN
    IF ~payload.ok \/ payload.sub = NoSub THEN NoRow
    ELSE QueryUserById(payload.sub)

\* db.query(User).filter(User.email == email).first()
QueryUserByEmail_faulty(email) == NoRow
QueryUserByEmail(email) ==
    IF \E u \in DOMAIN users : users[u].email = email
    THEN CHOOSE u \in DOMAIN users : users[u].email = email
    ELSE NoRow

\* db.query(Resume).filter(Resume.id == resume_id, Resume.user_id == uid).first()
QueryResume_faulty(resume_id, uid) ==
    IF resume_id \in DOMAIN resumes THEN resume_id ELSE NoRow
QueryResume(resume_id, uid) ==
    IF resume_id \in DOMAIN resumes /\ resumes[resume_id].user_id = uid
    THEN resume_id ELSE NoRow

\* current_user.subscription_type == SubscriptionType.FREE
IsFree_faulty(uid) == FALSE
IsFree(uid) == users[uid].subscription_type = FREE

\* elif current_user.subscription_type == SubscriptionType.ONE_TIME
IsOneTime_faulty(uid) == users[uid].subscription_type # FREE
IsOneTime(uid) == users[uid].subscription_type = ONE_TIME

\* current_user.remaining_enhancements <= 0
NoRemaining_faulty(uid) == users[uid].remaining_enhancements < 0
NoRemaining(uid) == users[uid].remaining_enhancements <= 0

\* not resume.score
ScoreMissing(rid) == resumes[rid].score = NoScore \/ resumes[rid].score = 0

\* db.add(analytics)
AddAnalytics_faulty(log, event) == log
AddAnalytics(log, event) == Append(log, event)

Event(uid, rid, action_type, metadata) ==
    [user_id |-> uid, resume_id |-> rid, action_type |-> action_type, metadata |-> metadata]

\* Resume(user_id=..., original_content=..., job_description=..., linkedin_url=...)
Resume(uid, content, job_description, linkedin_url) ==
    [user_id |-> uid, original_content |-> content, job_description |-> job_description,
     linkedin_url |-> linkedin_url, enhanced_content |-> None, score |-> NoScore,
     feedback |-> None, learning_suggestions |-> None, cover_letter |-> None]

\* Resume rows of one user, newest first (ids grow with created_at)
RECURSIVE RowsDesc(_, _)
RowsDesc(uid, top) ==
    IF top = 0 THEN <<>>
    ELSE IF top \in DOMAIN resumes /\ resumes[top].user_id = uid
         THEN <<[id |-> top, row |-> resumes[top]]>> \o RowsDesc(uid, top - 1)
         ELSE RowsDesc(uid, top - 1)

(***************************** responses ************************************)
Response(op, token, uid, rid, status, detail, body, scorer) ==
    [op |-> op, token |-> token, user |-> uid, rid |-> rid, status |-> status,
     detail |-> detail, body |-> body, scorer |-> scorer, arg |-> <<>>]
\* the same, for a request whose body or form fields the properties refer to
WithArg(r, arg) == [r EXCEPT !.arg = arg]
NoResponse == Response("none", NoToken, NoRow, NoRow, 0, "", <<>>, FALSE)

\* raise HTTPException(...), answered by http_exception_handler; nothing committed
Raise(op, token, uid, rid, status, detail) ==
    /\ resp' = Response(op, token, uid, rid, status, detail, <<>>, FALSE)
    /\ UNCHANGED <<dbVars, now, issued, start, sessions>>

RaiseArg(op, token, arg, status, detail) ==
    /\ resp' = WithArg(Response(op, token, NoRow, NoRow, status, detail, <<>>, FALSE), arg)
    /\ UNCHANGED <<dbVars, now, issued, start, sessions>>

Unauthorized(op, token, rid) ==
    Raise(op, token, NoRow, rid, 401, "Could not validate credentials")

(***************************** resume handlers ******************************)
\* A handler writes an analytics row only while the log has room.
LogOpen == Len(analytics) < MaxLog

\* POST /upload
UploadResume(token, content, job_description, linkedin_url) ==
    LET uid == get_current_user(token)
        rid == nextResumeId
    IN
    IF uid = NoRow THEN Unauthorized("upload", token, NoRow)
       ELSE IF IsFree(uid)
       THEN Raise("upload", token, uid, NoRow, 403,
                  "Free users cannot upload resumes. Please upgrade your subscription.")
       ELSE IF IsOneTime(uid) /\ NoRemaining(uid)
       THEN Raise("upload", token, uid, NoRow, 403,
                  "No remaining enhancements. Please purchase more or upgrade to Pro.")
       ELSE
         /\ LogOpen
         /\ resumes' = resumes @@ (rid :> Resume(uid, content, job_description, linkedin_url))
         /\ nextResumeId' = nextResumeId + 1
         /\ versions' = versions \cup
                {[resume_id |-> rid, content |-> content, version_number |-> 1]}
         /\ analytics' = AddAnalytics(analytics,
                Event(uid, rid, RESUME_UPLOAD,
                      [has_job_description |-> Truthy(job_description),
                       has_linkedin |-> Truthy(linkedin_url)]))
         /\ tasks' = IF Truthy(linkedin_url)
                     THEN Append(tasks, [fn |-> "extract_linkedin_profile",
                                         resume_id |-> rid, arg |-> linkedin_url])
                     ELSE tasks
         /\ resp' = Response("upload", token, uid, rid, 200, "",
                             <<[id |-> rid, row |-> resumes'[rid]]>>, FALSE)
         /\ UNCHANGED <<users, now, issued, start, sessions>>

\* POST /enhance
EnhanceResume(token, resume_id, job_description) ==
    LET uid == get_current_user(token)
        rid == QueryResume(resume_id, uid)
    IN
    IF uid = NoRow THEN Unauthorized("enhance", token, resume_id)
       ELSE IF rid = NoRow
       THEN Raise("enhance", token, uid, resume_id, 404, "Resume not found")
       ELSE IF IsFree(uid)
       THEN Raise("enhance", token, uid, resume_id, 403,
                  "Free users cannot enhance resumes. Please upgrade your subscription.")
       ELSE IF IsOneTime(uid) /\ NoRemaining(uid)
       THEN Raise("enhance", token, uid, resume_id, 403,
                  "No remaining enhancements. Please purchase more or upgrade to Pro.")
       ELSE
         /\ LogOpen
         /\ users' = IF IsOneTime(uid)
                     THEN [users EXCEPT ![uid].remaining_enhancements = @ - 1]
                     ELSE users
         /\ tasks' = Append(tasks, [fn |-> "enhance_resume", resume_id |-> rid,
                                    arg |-> OrElse(job_description, resumes[rid].job_description)])
         /\ analytics' = AddAnalytics(analytics,
                Event(uid, rid, RESUME_ENHANCE,
                      [has_job_description |-> Truthy(job_description)]))
         /\ resp' = Response("enhance", token, uid, resume_id, 200, "",
                             <<[id |-> rid, row |-> resumes[rid]]>>, FALSE)
         /\ UNCHANGED <<resumes, nextResumeId, versions, now, issued, start, sessions>>

\* GET /score/{resume_id}; scored is what score_resume returns if it is called
GetResumeScore(token, resume_id, scored) ==
    LET uid == get_current_user(token)
        rid == QueryResume(resume_id, uid)
        call == ScoreMissing(rid)
    IN
    IF uid = NoRow THEN Unauthorized("score", token, resume_id)
    ELSE IF rid = NoRow
    THEN Raise("score", token, uid, resume_id, 404, "Resume not found")
    ELSE
      /\ resumes' = IF call
                    THEN [resumes EXCEPT ![rid].score = scored.score,
                                         ![rid].feedback = scored.feedback,
                                         ![rid].learning_suggestions = scored.learning_suggestions]
                    ELSE resumes
      /\ resp' = Response("score", token, uid, resume_id, 200, "",
                          <<[score |-> resumes'[rid].score,
                             feedback |-> resumes'[rid].feedback,
                             learning_suggestions |-> resumes'[rid].learning_suggestions]>>,
                          call)
      /\ UNCHANGED <<users, nextResumeId, versions, analytics, tasks, now, issued, start, sessions>>

\* POST /cover-letter; letter is what generate_cover_letter returns
GenerateCoverLetter(token, resume_id, company_name, position, letter) ==
    LET uid == get_current_user(token)
        rid == QueryResume(resume_id, uid)
    IN
    IF uid = NoRow THEN Unauthorized("cover-letter", token, resume_id)
       ELSE IF rid = NoRow
       THEN Raise("cover-letter", token, uid, resume_id, 404, "Resume not found")
       ELSE IF IsFree(uid)
       THEN Raise("cover-letter", token, uid, resume_id, 403,
                  "Free users cannot generate cover letters. Please upgrade your subscription.")
       ELSE
         /\ LogOpen
         /\ resumes' = [resumes EXCEPT ![rid].cover_letter = letter]
         /\ analytics' = AddAnalytics(analytics,
                Event(uid, rid, COVER_LETTER_GENERATE,
                      [company_name |-> company_name, position |-> position]))
         /\ resp' = Response("cover-letter", token, uid, resume_id, 200, "",
                             <<[cover_letter |-> letter]>>, FALSE)
         /\ UNCHANGED <<users, nextResumeId, versions, tasks, now, issued, start, sessions>>

\* GET /list
ListResumes(token) ==
    LET uid == get_current_user(token) IN
    IF uid = NoRow THEN Unauthorized("list", token, NoRow)
    ELSE
      /\ resp' = Response("list", token, uid, NoRow, 200, "",
                          RowsDesc(uid, nextResumeId - 1), FALSE)
      /\ UNCHANGED <<dbVars, now, issued, start, sessions>>

\* GET /{resume_id}
GetResume(token, resume_id) ==
    LET uid == get_current_user(token)
        rid == QueryResume(resume_id, uid)
    IN
    IF uid = NoRow THEN Unauthorized("get", token, resume_id)
    ELSE IF rid = NoRow
    THEN Raise("get", token, uid, resume_id, 404, "Resume not found")
    ELSE
      /\ resp' = Response("get", token, uid, resume_id, 200, "",
                          <<[id |-> rid, row |-> resumes[rid]]>>, FALSE)
      /\ UNCHANGED <<dbVars, now, issued, start, sessions>>

\* DELETE /{resume_id}
DeleteResume(token, resume_id) ==
    LET uid == get_current_user(token)
        rid == QueryResume(resume_id, uid)
    IN
    IF uid = NoRow THEN Unauthorized("delete", token, resume_id)
    ELSE IF rid = NoRow
    THEN Raise("delete", token, uid, resume_id, 404, "Resume not found")
    ELSE
      /\ resumes' = [r \in DOMAIN resumes \ {rid} |-> resumes[r]]
      /\ resp' = Response("delete", token, uid, resume_id, 200,
                          "Resume deleted successfully", <<>>, FALSE)
      /\ UNCHANGED <<users, nextResumeId, versions, analytics, tasks, now, issued, start, sessions>>

\* POST /analyze.  The whole body runs under try/except Exception, which turns
\* every exception, the handler's own HTTPException(404) included, into a 500.
\* analyze_resume_content is an external call that returns or raises (resume.py
\* neither defines nor imports the name, so as the file stands it raises NameError).
AnalyzeOutcomes == {"returns", "raises"}
AnalyzeResume(token, resume_id, outcome) ==
    LET uid == get_current_user(token)
        rid == QueryResume(resume_id, uid)
    IN
    IF uid = NoRow THEN Unauthorized("analyze", token, resume_id)
    ELSE IF rid = NoRow
    THEN Raise("analyze", token, uid, resume_id, 500, "404: Resume not found")
    ELSE IF outcome = "raises"
    THEN Raise("analyze", token, uid, resume_id, 500, "analyze_resume_content")
    ELSE
      /\ LogOpen
      /\ analytics' = AddAnalytics(analytics,
             Event(uid, rid, RESUME_ANALYZE, [none |-> TRUE]))
      /\ resp' = Response("analyze", token, uid, resume_id, 200, "",
                          <<[analysis |-> "analysis"]>>, FALSE)
      /\ UNCHANGED <<users, resumes, nextResumeId, versions, tasks, now, issued, start, sessions>>

\* POST /developer-code.  No current-user dependency: the handler validates the
\* code, then calls get_current_user(request, db) itself, all under
\* try/except Exception.  is_valid_developer_code returns a truth value or raises
\* (resume.py neither defines nor imports the name).
CodeOutcomes == {"valid", "invalid", "raises"}
\* what get_current_user is handed: the Request object, which is no token string
RequestObject(token) == Token(NoSub, 0, "starlette.requests.Request")
ValidateDeveloperCode(token, outcome) ==
    LET uid == get_current_user(RequestObject(token)) IN
    IF outcome = "raises"
    THEN RaiseArg("developer-code", token, <<outcome>>, 500, "is_valid_developer_code")
    ELSE IF outcome = "invalid"
    THEN RaiseArg("developer-code", token, <<outcome>>, 500, "400: Invalid developer code")
    ELSE IF uid = NoRow
    THEN RaiseArg("developer-code", token, <<outcome>>, 500,
                  "401: Could not validate credentials")
    ELSE
      /\ users' = [users EXCEPT ![uid].subscription_type = PRO,
                                ![uid].remaining_enhancements = -1]
      /\ resp' = WithArg(Response("developer-code", token, uid, NoRow, 200,
                                  "Pro access granted successfully", <<>>, FALSE),
                          <<outcome>>)
      /\ UNCHANGED <<resumes, nextResumeId, versions, analytics, tasks, now, issued, start, sessions>>

(***************************** auth handlers ********************************)
\* POST /auth/signup; salt is the salt bcrypt draws
Signup(email, password, fullName, salt) ==
    LET id == Cardinality(DOMAIN users) + 1 IN
    IF QueryUserByEmail(email) # NoRow
    THEN RaiseArg("signup", NoToken, <<email>>, 400, "Email already registered")
    ELSE
      /\ id <= MaxUsers
      /\ users' = users @@ (id :> [email |-> email,
                                   password |-> Bcrypt(salt, password),
                                   full_name |-> fullName,
                                   subscription_type |-> FREE,
                                   remaining_enhancements |-> 0])
      /\ start' = start @@ (id :> 0)
      /\ resp' = WithArg(Response("signup", NoToken, id, NoRow, 200, "",
                          <<[id |-> ToStr(id), email |-> email, fullName |-> fullName]>>, FALSE),
                          <<email>>)
      /\ UNCHANGED <<resumes, nextResumeId, versions, analytics, tasks, now, issued, sessions>>

\* POST /auth/signin; form_data.username carries the email
Signin(username, password) ==
    LET uid == QueryUserByEmail(username)
        access_token == create_access_token(ToStr(uid), ACCESS_TOKEN_EXPIRE_MINUTES)
    IN
    IF uid = NoRow \/ ~verify_password(password, users[uid].password)
    THEN RaiseArg("signin", NoToken, <<username, password>>, 401, "Incorrect email or password")
    ELSE
      /\ access_token \in issued \/ Cardinality(issued) < MaxTokens
      /\ issued' = issued \cup {access_token}
      /\ resp' = WithArg(Response("signin", NoToken, uid, NoRow, 200, "",
                          <<[access_token |-> access_token, token_type |-> "bearer"]>>, FALSE),
                          <<username, password>>)
      /\ UNCHANGED <<dbVars, now, start, sessions>>

\* GET /auth/me
GetCurrentUserInfo(token) ==
    LET uid == get_current_user(token) IN
    IF uid = NoRow THEN Unauthorized("me", token, NoRow)
    ELSE
      /\ resp' = Response("me", token, uid, NoRow, 200, "",
                          <<[id |-> ToStr(uid), email |-> users[uid].email,
                             fullName |-> users[uid].full_name]>>, FALSE)
      /\ UNCHANGED <<dbVars, now, issued, start, sessions>>

\* The clock advances between requests.
TickSteps == {ACCESS_TOKEN_EXPIRE_MINUTES - 1, ACCESS_TOKEN_EXPIRE_MINUTES}
Tick(d) ==
    /\ now + d <= MaxTime
    /\ now' = now + d
    /\ resp' = NoResponse
    /\ UNCHANGED <<dbVars, issued, start, sessions>>

(***************************** enhance, step by step ************************)
\* POST /enhance as the server runs it when several requests are in flight:
\* each request has its own Session (get_db), whose identity map holds the User
\* row as get_current_user read it; the handler tests and changes that copy, and
\* db.commit() writes the changed attribute back.
Requests == 1..MaxRequests

NoSession ==
    [pc |-> "idle", token |-> NoToken, resume_id |-> NoRow, uid |-> NoRow,
     subscription_type |-> None, remaining_enhancements |-> 0, rid |-> NoRow,
     status |-> 0]
NoSessions == [q \in Requests |-> NoSession]

\* the response leaves; get_db's finally closes the session
Close(q, status, detail, body) ==
    LET s == sessions[q] IN
    /\ sessions' = [sessions EXCEPT ![q].pc = "done", ![q].status = status]
    /\ resp' = Response("enhance", s.token, s.uid, s.resume_id, status, detail, body, FALSE)

\* Depends(get_db), Depends(get_current_user): a new session, and the User row
\* loaded into it
OpenSession(q, token, resume_id) ==
    LET uid == get_current_user(token) IN
    /\ sessions[q].pc = "idle"
    /\ IF uid = NoRow
       THEN /\ sessions' = [sessions EXCEPT ![q].pc = "done", ![q].token = token,
                                             ![q].resume_id = resume_id, ![q].status = 401]
            /\ resp' = Response("enhance", token, NoRow, resume_id, 401,
                                "Could not validate credentials", <<>>, FALSE)
       ELSE /\ sessions' = [sessions EXCEPT ![q] =
                   [pc |-> "loaded", token |-> token, resume_id |-> resume_id, uid |-> uid,
                    subscription_type |-> users[uid].subscription_type,
                    remaining_enhancements |-> users[uid].remaining_enhancements,
                    rid |-> NoRow, status |-> 0]]
            /\ resp' = NoResponse
    /\ UNCHANGED <<dbVars, now, issued, start>>

\* the resume query and the subscription test, on the session's copy of the user
EnhanceCheck(q) ==
    LET s == sessions[q]
        rid == QueryResume(s.resume_id, s.uid)
    IN
    /\ s.pc = "loaded"
    /\ IF rid = NoRow
       THEN Close(q, 404, "Resume not found", <<>>)
       ELSE IF s.subscription_type = FREE
       THEN Close(q, 403,
                  "Free users cannot enhance resumes. Please upgrade your subscription.", <<>>)
       ELSE IF s.subscription_type = ONE_TIME /\ s.remaining_enhancements <= 0
       THEN Close(q, 403,
                  "No remaining enhancements. Please purchase more or upgrade to Pro.", <<>>)
       ELSE /\ sessions' = [sessions EXCEPT ![q].pc = "checked", ![q].rid = rid]
            /\ resp' = NoResponse
    /\ UNCHANGED <<dbVars, now, issued, start>>

\* current_user.remaining_enhancements -= 1, on the session's copy
EnhanceDecrement(q) ==
    LET s == sessions[q] IN
    /\ s.pc = "checked"
    /\ sessions' = [sessions EXCEPT
                       ![q].pc = "dirty",
                       ![q].remaining_enhancements =
                           IF s.subscription_type = ONE_TIME THEN @ - 1 ELSE @]
    /\ resp' = NoResponse
    /\ UNCHANGED <<dbVars, now, issued, start>>

\* add_task, db.add(analytics), db.commit(): the flush writes the changed
\* attribute of the session's copy to the user row and inserts the event
EnhanceCommit(q) ==
    LET s == sessions[q] IN
    /\ s.pc = "dirty"
    /\ users' = IF s.subscription_type = ONE_TIME /\ s.uid \in DOMAIN users
                THEN [users EXCEPT ![s.uid].remaining_enhancements = s.remaining_enhancements]
                ELSE users
    /\ tasks' = Append(tasks, [fn |-> "enhance_resume", resume_id |-> s.rid,
                               arg |-> IF s.rid \in DOMAIN resumes
                                       THEN resumes[s.rid].job_description ELSE None])
    /\ analytics' = AddAnalytics(analytics,
           Event(s.uid, s.rid, RESUME_ENHANCE, [has_job_description |-> FALSE]))
    /\ Close(q, 200, "", <<[id |-> s.rid]>>)
    /\ UNCHANGED <<resumes, nextResumeId, versions, now, issued, start>>

(***************************** tokens a client can send *********************)
FarFuture == MaxTime + ACCESS_TOKEN_EXPIRE_MINUTES + 1
\* signed with another key
BadSignature == Token("1", FarFuture, "another-key")
\* signed, without "sub"
NoSubject == Token(NoSub, FarFuture, SECRET_KEY)
\* signed, "sub" naming no user row
UnknownSubject == Token("9", FarFuture, SECRET_KEY)
ForgedTokens == {BadSignature, NoSubject, UnknownSubject}

(***************************** specification: resume lifecycle **************)
\* (tier, counter) pairs of stored user rows
TierRows ==
    ({FREE} \X {0}) \cup ({ONE_TIME} \X (0..MaxRemaining)) \cup ({PRO} \X (-1..MaxRemaining))

\* The stored database: user 1 on any tier with any counter, user 2 a user
\* granted pro access; user 1 may own a resume uploaded earlier.
StoredTiers == {f \in [UserIds -> TierRows] : f[2] = <<PRO, -1>>}

SeedEmail(u) == "user" \o ToStr(u) \o "@x.io"

InitResume ==
    /\ \E tr \in StoredTiers :
         /\ users = [u \in UserIds |->
                        [email |-> SeedEmail(u),
                         password |-> Bcrypt("s1", "pw1"),
                         full_name |-> "name",
                         subscription_type |-> tr[u][1],
                         remaining_enhancements |-> tr[u][2]]]
         /\ start = [u \in UserIds |-> tr[u][2]]
    /\ \E owner \in {1, NoRow} :
         /\ resumes = IF owner = NoRow THEN <<>>
                      ELSE (1 :> Resume(owner, "cv", None, None))
         /\ nextResumeId = IF owner = NoRow THEN 1 ELSE 2
         /\ versions = IF owner = NoRow THEN {}
                       ELSE {[resume_id |-> 1, content |-> "cv", version_number |-> 1]}
    /\ analytics = <<>>
    /\ tasks = <<>>
    /\ now = 0
    /\ issued = {Token(ToStr(u), ACCESS_TOKEN_EXPIRE_MINUTES, SECRET_KEY) : u \in UserIds}
    /\ sessions = NoSessions
    /\ resp = NoResponse

ResumeTokens == issued
TopScore == {s \in ScorerResults : s.score = MaxScore}
\* resume ids a request can name: every id handed out so far, and the next one
ResumeIds == 1..nextResumeId

NextResume ==
    \/ \E t \in ResumeTokens, c \in Contents, x \in UploadExtras :
         UploadResume(t, c, x[1], x[2])
    \/ \E t \in ResumeTokens, r \in ResumeIds : EnhanceResume(t, r, None)
    \/ \E t \in ResumeTokens, r \in ResumeIds, s \in TopScore : GetResumeScore(t, r, s)
    \/ \E t \in ResumeTokens, r \in ResumeIds, l \in Letters :
         GenerateCoverLetter(t, r, "company", "position", l)
    \/ \E t \in ResumeTokens : ListResumes(t)
    \/ \E t \in ResumeTokens, r \in ResumeIds : GetResume(t, r)
    \/ \E t \in ResumeTokens, r \in ResumeIds : DeleteResume(t, r)

SpecResume == InitResume /\ [][NextResume]_vars

(***************************** specification: handlers under try/except *****)
NextErrors ==
    \/ \E t \in ResumeTokens, c \in Contents, x \in UploadExtras :
         UploadResume(t, c, x[1], x[2])
    \/ \E t \in ResumeTokens, r \in ResumeIds, o \in AnalyzeOutcomes : AnalyzeResume(t, r, o)
    \/ \E t \in ResumeTokens, o \in CodeOutcomes : ValidateDeveloperCode(t, o)

SpecErrors == InitResume /\ [][NextErrors]_vars

(***************************** specification: scoring ***********************)
NextScore ==
    \/ \E t \in ResumeTokens, c \in Contents, x \in UploadExtras :
         UploadResume(t, c, x[1], x[2])
    \/ \E t \in ResumeTokens, r \in ResumeIds, s \in ScorerResults : GetResumeScore(t, r, s)

SpecScore == InitResume /\ [][NextScore]_vars

(***************************** specification: authentication ****************)
InitAuth ==
    /\ users = <<>>
    /\ start = <<>>
    /\ resumes = <<>>
    /\ nextResumeId = 1
    /\ versions = {}
    /\ analytics = <<>>
    /\ tasks = <<>>
    /\ now = 0
    /\ issued = {}
    /\ sessions = NoSessions
    /\ resp = NoResponse

AuthTokens == issued \cup ForgedTokens

NextAuth ==
    \/ \E e \in Emails, p \in Passwords, s \in Salts : Signup(e, p, "name", s)
    \/ \E e \in Emails, p \in Passwords : Signin(e, p)
    \/ \E t \in AuthTokens : GetCurrentUserInfo(t)
    \/ \E t \in AuthTokens : ListResumes(t)
    \/ \E t \in AuthTokens, o \in CodeOutcomes : ValidateDeveloperCode(t, o)
    \/ \E d \in TickSteps : Tick(d)

SpecAuth == InitAuth /\ [][NextAuth]_vars

(***************************** specification: enhance requests in flight ****)
NextConcurrent ==
    \/ \E q \in Requests, t \in ResumeTokens, r \in ResumeIds : OpenSession(q, t, r)
    \/ \E q \in Requests : EnhanceCheck(q)
    \/ \E q \in Requests : EnhanceDecrement(q)
    \/ \E q \in Requests : EnhanceCommit(q)

SpecConcurrent == InitResume /\ [][NextConcurrent]_vars

Spec == SpecResume

(***************************** properties ***********************************)
\* In a step, resp' is the request the step handled and the answer it got;
\* unprimed variables are the store before the request.
Owns(u, r) == r \in DOMAIN resumes /\ resumes[r].user_id = u
GatedOps == {"upload", "enhance", "cover-letter"}
Authenticated == resp'.user # NoRow
TierBefore == users[resp'.user].subscription_type
RemainingBefore == users[resp'.user].remaining_enhancements
\* successful enhance requests of a user: the RESUME_ENHANCE rows written for them
EnhanceCountIn(log, u) ==
    Cardinality({i \in 1..Len(log) :
        log[i].user_id = u /\ log[i].action_type = RESUME_ENHANCE})
EnhanceCount(u) == EnhanceCountIn(analytics, u)

\* C1 (as stated): every upload, enhance and cover-letter request of a FREE user
\* is answered 403, whatever it names.
C1_FreeAlways403 ==
    (/\ resp.op \in GatedOps
     /\ resp.user # NoRow
     /\ users[resp.user].subscription_type = FREE) => resp.status = 403

\* C1 (amended): an upload request of a FREE user is answered 403; an enhance or
\* cover-letter request of a FREE user is answered 403 when it names a resume the
\* user owns and 404 otherwise; in every case no row is created or changed, no
\* background task is queued and remaining_enhancements stays as it was.
C1_FreeRejected ==
    [][(/\ resp'.op \in GatedOps
        /\ Authenticated
        /\ TierBefore = FREE)
       => /\ resp'.status = IF resp'.op = "upload" \/ Owns(resp'.user, resp'.rid)
                            THEN 403 ELSE 404
          /\ resp'.body = <<>>
          /\ UNCHANGED dbVars]_vars

\* a FREE user's enhance request on their own resume was answered 403
C1_Witness ==
    /\ resp.op = "enhance"
    /\ resp.status = 403
    /\ resp.user # NoRow
    /\ users[resp.user].subscription_type = FREE
    /\ Owns(resp.user, resp.rid)

\* the counter of a ONE_TIME user is never negative, and the user's successful
\* enhance requests never outnumber its starting value
CounterBounded ==
    \A u \in DOMAIN users :
        users[u].subscription_type = ONE_TIME
        => /\ users[u].remaining_enhancements >= 0
           /\ EnhanceCount(u) <= start[u]

\* C2 (as stated): for a ONE_TIME user every successful enhance request lowers
\* remaining_enhancements by exactly 1, and every enhance or upload request made
\* while the counter is <= 0 is answered 403 and leaves the counter unchanged; the
\* counter is never negative and the successful enhance requests never outnumber
\* its starting value.
C2_BlockedAlways403 ==
    /\ []CounterBounded
    /\ [][(Authenticated /\ TierBefore = ONE_TIME /\ resp'.op \in {"upload", "enhance"})
          => /\ (resp'.op = "enhance" /\ resp'.status = 200)
                => users'[resp'.user].remaining_enhancements = RemainingBefore - 1
             /\ RemainingBefore <= 0 => (resp'.status = 403 /\ users' = users)]_vars

\* C2 (amended): for a ONE_TIME user every successful enhance request lowers
\* remaining_enhancements by exactly 1; an upload request, or an enhance request
\* naming a resume the user owns, made while the counter is <= 0 is answered 403,
\* an enhance request naming any other resume id is answered 404, and either way
\* the counter and every row stay as they were; the counter is never negative and
\* the successful enhance requests never outnumber its starting value.
C2_OneTimeCounter ==
    /\ []CounterBounded
    /\ [](\A u \in DOMAIN users :
            users[u].subscription_type = ONE_TIME
            => users[u].remaining_enhancements = start[u] - EnhanceCount(u))
    /\ [][(Authenticated /\ TierBefore = ONE_TIME /\ resp'.op \in {"upload", "enhance"})
          => /\ (resp'.op = "enhance" /\ resp'.status = 200)
                => /\ users'[resp'.user].remaining_enhancements = RemainingBefore - 1
                   /\ EnhanceCountIn(analytics', resp'.user) = EnhanceCount(resp'.user) + 1
             /\ (resp'.op = "upload" /\ resp'.status = 200) => users' = users
             /\ RemainingBefore <= 0
                => /\ resp'.status = IF resp'.op = "upload" \/ Owns(resp'.user, resp'.rid)
                                     THEN 403 ELSE 404
                   /\ UNCHANGED dbVars]_vars

\* a ONE_TIME user used up a positive counter and was then refused
C2_Witness ==
    /\ resp.op = "enhance"
    /\ resp.status = 403
    /\ resp.user # NoRow
    /\ users[resp.user].subscription_type = ONE_TIME
    /\ start[resp.user] > 0
    /\ users[resp.user].remaining_enhancements = 0
    /\ EnhanceCount(resp.user) = start[resp.user]

\* C3: an upload request of a PRO user, and an enhance or cover-letter request of a
\* PRO user on a resume they own, is never answered 403, whatever
\* remaining_enhancements holds, and leaves remaining_enhancements as it was.
C3_ProNeverRefused ==
    [][(/\ resp'.op \in GatedOps
        /\ Authenticated
        /\ TierBefore = PRO)
       => /\ resp'.status # 403
          /\ (resp'.op = "upload" \/ Owns(resp'.user, resp'.rid)) => resp'.status = 200
          /\ users' = users]_vars

\* a PRO user whose counter is -1 enhanced a resume
C3_Witness ==
    /\ resp.op = "enhance"
    /\ resp.status = 200
    /\ resp.user # NoRow
    /\ users[resp.user].subscription_type = PRO
    /\ users[resp.user].remaining_enhancements = -1

\* C4: list returns exactly the caller's resumes; get, score, enhance, cover-letter
\* and delete on a resume id the caller does not own are answered 404 "Resume not
\* found" with an empty body, the same for another user's resume as for an id that
\* does not exist, and leave every row as it was.
ScopedOps == {"get", "score", "enhance", "cover-letter", "delete"}
C4_OwnerScoped ==
    [][Authenticated =>
        /\ resp'.op = "list"
           => /\ \A i \in 1..Len(resp'.body) : resp'.body[i].row.user_id = resp'.user
              /\ {resp'.body[i].id : i \in 1..Len(resp'.body)}
                    = {r \in DOMAIN resumes : resumes[r].user_id = resp'.user}
              /\ \A i \in 1..Len(resp'.body) : resp'.body[i].row = resumes[resp'.body[i].id]
        /\ (resp'.op \in ScopedOps /\ ~Owns(resp'.user, resp'.rid))
           => /\ resp' = Response(resp'.op, resp'.token, resp'.user, resp'.rid,
                                  404, "Resume not found", <<>>, FALSE)
              /\ UNCHANGED dbVars]_vars

\* a delete request naming another user's resume was answered 404 and the resume
\* is still there
C4_Witness ==
    /\ resp.op = "delete"
    /\ resp.status = 404
    /\ resp.user # NoRow
    /\ resp.rid \in DOMAIN resumes
    /\ resumes[resp.rid].user_id # resp.user

\* C5: a signup request whose email is that of an existing user is answered 400
\* and creates no user; any other signup creates one user with that email; no two
\* user rows ever have the same email.
C5_UniqueEmails ==
    /\ [](\A u, v \in DOMAIN users : users[u].email = users[v].email => u = v)
    /\ [][resp'.op = "signup"
          => IF \E u \in DOMAIN users : users[u].email = resp'.arg[1]
             THEN resp'.status = 400 /\ resp'.body = <<>> /\ users' = users
             ELSE /\ resp'.status = 200
                  /\ DOMAIN users' = DOMAIN users \cup {resp'.user}
                  /\ resp'.user \notin DOMAIN users
                  /\ users'[resp'.user].email = resp'.arg[1]
                  /\ \A u \in DOMAIN users : users'[u] = users[u]]_vars

\* a signup request with the email of an existing user was answered 400
C5_Witness ==
    /\ resp.op = "signup"
    /\ resp.status = 400
    /\ \E u \in DOMAIN users : users[u].email = resp.arg[1]

\* the password a stored hash was made from
HashedFrom(hashed) == hashed.digest[2]

\* C6: a signin request whose email matches no user, or whose password is not the
\* one the matching user's stored hash was made from, is answered 401 and issues no
\* token; a signin with the right password is answered with a bearer token whose
\* subject is that user's id and which expires ACCESS_TOKEN_EXPIRE_MINUTES later.
C6_SigninCredentials ==
    [][resp'.op = "signin"
       => LET email == resp'.arg[1]
              password == resp'.arg[2]
              match == {u \in DOMAIN users : users[u].email = email}
          IN
          IF \E u \in match : HashedFrom(users[u].password) = password
          THEN /\ resp'.status = 200
               /\ resp'.user \in match
               /\ Len(resp'.body) = 1
               /\ resp'.body[1].token_type = "bearer"
               /\ resp'.body[1].access_token
                     = Token(ToStr(resp'.user), now + ACCESS_TOKEN_EXPIRE_MINUTES, SECRET_KEY)
               /\ issued' = issued \cup {resp'.body[1].access_token}
          ELSE /\ resp'.status = 401
               /\ resp'.body = <<>>
               /\ issued' = issued]_vars

\* a signin with the right password returned a token naming the user, and a signin
\* with a wrong password for an existing email can follow
C6_Witness ==
    /\ resp.op = "signin"
    /\ resp.status = 200
    /\ resp.body[1].access_token.sub = ToStr(resp.user)
    /\ users[resp.user].email = resp.arg[1]
    /\ resp.body[1].access_token \in issued

\* whether current-user resolution must refuse a token now
InvalidToken(t) ==
    \/ t.key # SECRET_KEY
    \/ now >= t.exp
    \/ t.sub = NoSub
    \/ ~ \E u \in DOMAIN users : ToStr(u) = t.sub
\* the endpoints that resolve the current user from the request's token
ResolvingOps == {"me", "list", "developer-code"}

\* C7 (as stated): a token issued by signin resolves to the user its subject names
\* until it expires, and every request carrying an expired token, a token that
\* does not verify, a token without a subject or a token whose subject names no
\* user is answered 401, never another status.
C7_TokenValidity ==
    resp.op \in ResolvingOps
    => /\ InvalidToken(resp.token) => resp.status = 401
       /\ (resp.token \in issued /\ now < resp.token.exp)
          => resp.status = 200 /\ ToStr(resp.user) = resp.token.sub

\* C8 (as stated): once a score is stored on a resume, whatever its value, a score
\* request returns the stored score, feedback and suggestions and does not call the
\* external scorer.
C8_StoredScoreReturned ==
    [][(/\ resp'.op = "score"
        /\ Authenticated
        /\ Owns(resp'.user, resp'.rid)
        /\ resumes[resp'.rid].score # NoScore)
       => /\ ~resp'.scorer
          /\ resp'.body = <<[score |-> resumes[resp'.rid].score,
                             feedback |-> resumes[resp'.rid].feedback,
                             learning_suggestions |-> resumes[resp'.rid].learning_suggestions]>>
          /\ resumes' = resumes]_vars

\* C9 (as stated): an analyze request naming a resume the caller does not own, or
\* that does not exist, is answered 404, and a developer-code request carrying an
\* invalid code is answered 400.
C9_DomainStatus ==
    /\ (resp.op = "analyze" /\ resp.user # NoRow /\ ~Owns(resp.user, resp.rid))
       => resp.status = 404
    /\ (resp.op = "developer-code" /\ resp.arg = <<"invalid">>) => resp.status = 400

LifecycleOps == {"upload", "enhance", "score", "cover-letter", "list", "get", "delete"}
LoggedAs(op) ==
    CASE op = "upload" -> RESUME_UPLOAD
      [] op = "enhance" -> RESUME_ENHANCE
      [] op = "cover-letter" -> COVER_LETTER_GENERATE
      [] OTHER -> None

Succeeded(u) ==
    {q \in Requests : sessions[q].pc = "done" /\ sessions[q].status = 200
                      /\ sessions[q].uid = u}

\* C11 (as stated): however the steps of concurrent enhance requests of a
\* ONE_TIME user interleave, the number that succeed is at most the counter's
\* value before the requests, and the committed counter equals that value minus
\* the number of successes and is never negative.
C11_CounterNotOverspent ==
    \A u \in DOMAIN users :
        users[u].subscription_type = ONE_TIME
        => /\ Cardinality(Succeeded(u)) <= start[u]
           /\ users[u].remaining_enhancements = start[u] - Cardinality(Succeeded(u))
           /\ users[u].remaining_enhancements >= 0

====
